---- MODULE Spec2Model ----
(***************************************************************************)
(* A model of two rendering components of webgl-operate:                   *)
(*                                                                         *)
(*   EnvironmentRenderingPass  (src/source/environmentrenderingpass.ts)    *)
(*   EyeTrackingRenderer       (src/demos/eye-tracking/eyetracking.ts)     *)
(*                                                                         *)
(* Every operation of the two classes is one action.  An operation issues  *)
(* a sequence of toolkit calls (bind, draw, enable, ...); the sequence     *)
(* issued by the most recent operation is kept in `calls`, and its effect  *)
(* on the binding state of the GL context is kept in `gl` / `eyeGl`.       *)
(***************************************************************************)
EXTENDS Integers, Sequences, FiniteSets

\* Bounds of the model: how many distinct toolkit objects a caller has at hand,
\* and how many compile / link steps of one initialize() may fail.
NumTexture2D == 2
NumTextureCube == 1
NumCameras == 1
MaxBuildFailures == 1

VARIABLES
    \* ---- EnvironmentRenderingPass ----
    environmentTexture,     \* _environmentTexture
    environmentTexture2,    \* _environmentTexture2
    environmenTextureType,  \* _environmenTextureType (spelled as in the source)
    camera,                 \* _camera
    passState,              \* where the host is in the lifecycle of the pass
    resources,              \* toolkit objects of the pass that are initialized
    initialized,            \* Initializable._initialized: what initialize() returned
    everSet,                \* setters called since construction (history)
    gl,                     \* binding state of the pass's GL context
    \* ---- EyeTrackingRenderer ----
    eyeState,               \* where the host is in the lifecycle of the renderer
    loop,                   \* the render-loop step the host takes next
    eyeCamera,              \* _camera: [eye, aspect, viewport, altered]
    navigation,             \* _navigation: [attached, pending]
    altered,                \* Renderer._altered: [canvasSize, clearColor]
    canvasSize,             \* Renderer._canvasSize / _frameSize
    eyeResources,           \* toolkit objects of the renderer that are initialized
    eyeGl,                  \* binding state of the renderer's GL context
    stream,                 \* _eyeTrackerDataStream (the external stream client)
    console,                \* the last line written by console.log
    \* ---- the most recent operation (either component) ----
    lastOp,                 \* its name
    calls,                  \* toolkit calls it issued, in order
    thrown                  \* message of the assertion it failed, or NoError

envVars == <<environmentTexture, environmentTexture2, environmenTextureType, camera,
             passState, resources, initialized, everSet, gl>>
eyeVars == <<eyeState, loop, eyeCamera, navigation, altered, canvasSize,
             eyeResources, eyeGl, stream, console>>
opVars == <<lastOp, calls, thrown>>
vars == <<envVars, eyeVars, opVars>>

----------------------------------------------------------------------------
\* Values

\* JavaScript `undefined`, for a field holding an object.
Undefined == [kind |-> "undefined", id |-> 0]

Texture2Ds == {[kind |-> "Texture2D", id |-> i] : i \in 1..NumTexture2D}
TextureCubes == {[kind |-> "TextureCube", id |-> i] : i \in 1..NumTextureCube}
Cameras == {[kind |-> "Camera", id |-> i] : i \in 1..NumCameras}

\* enum EnvironmentTextureType; a field never assigned holds UndefinedType.
CubeMap == "CubeMap"
EquirectangularMap == "EquirectangularMap"
SphereMap == "SphereMap"
PolarMap == "PolarMap"
EnvironmentTextureType == {CubeMap, EquirectangularMap, SphereMap, PolarMap}
UndefinedType == "undefined"

NoError == "none"
NoUnit == "none"
NoObject == "none"
TEXTURE0 == "TEXTURE0"
TEXTURE1 == "TEXTURE1"

\* `x instanceof Texture2D`, `x instanceof TextureCube`
InstanceOfTexture2D(x) == x.kind = "Texture2D"
InstanceOfTextureCube(x) == x.kind = "TextureCube"

\* One toolkit call: operation `op` on the object held by member `name`;
\* `obj` is the texture or camera passed along, `unit` the texture unit, and
\* `ok` what the toolkit reports back (compile and link can fail).
Call(op, name) ==
    [op |-> op, name |-> name, obj |-> Undefined, unit |-> NoUnit, ok |-> TRUE]
TextureBind(name, texture, unit) ==
    [op |-> "bind", name |-> name, obj |-> texture, unit |-> unit, ok |-> TRUE]
UniformMatrix(program, cam) ==
    [op |-> "uniformMatrix4fv", name |-> program, obj |-> cam, unit |-> NoUnit,
     ok |-> TRUE]
Build(op, name, ok) ==
    [op |-> op, name |-> name, obj |-> Undefined, unit |-> NoUnit, ok |-> ok]

\* Result of running (part of) a method body: the calls issued, the program
\* selected, and the message of the assertion that failed.
Returned(cs, program) == [thrown |-> NoError, calls |-> cs, program |-> program]
Thrown(message) == [thrown |-> message, calls |-> <<>>, program |-> NoObject]

\* auxiliaries.assert(statement, message): throws when the statement is false,
\* otherwise execution continues with `rest`.
assert(statement, message, rest) == IF statement THEN rest ELSE Thrown(message)


Programs == {"cubeMapProgram", "equiMapProgram", "sphereMapProgram", "polarMapProgram",
             "program"}
Geometries == {"ndcTriangle", "cuboid"}
Framebuffers == {"defaultFBO"}

\* Binding state of a fresh GL context: nothing bound, capabilities disabled.
FreshContext ==
    [unit0 |-> Undefined, unit1 |-> Undefined, program |-> NoObject,
     geometry |-> NoObject, framebuffer |-> NoObject,
     cullFace |-> FALSE, depthTest |-> FALSE]

\* Effect of one toolkit call on the binding state of the context.
Effect(g, c) ==
    CASE c.op = "bind" /\ c.unit = TEXTURE0 -> [g EXCEPT !.unit0 = c.obj]
      [] c.op = "bind" /\ c.unit = TEXTURE1 -> [g EXCEPT !.unit1 = c.obj]
      [] c.op = "bind" /\ c.name \in Programs -> [g EXCEPT !.program = c.name]
      [] c.op = "unbind" /\ c.name \in Programs -> [g EXCEPT !.program = NoObject]
      [] c.op = "bind" /\ c.name \in Geometries -> [g EXCEPT !.geometry = c.name]
      [] c.op = "unbind" /\ c.name \in Geometries -> [g EXCEPT !.geometry = NoObject]
      [] c.op = "bind" /\ c.name \in Framebuffers -> [g EXCEPT !.framebuffer = c.name]
      [] c.op = "unbind" /\ c.name \in Framebuffers ->
            [g EXCEPT !.framebuffer = NoObject]
      [] c.op = "enable" -> IF c.name = "CULL_FACE" THEN [g EXCEPT !.cullFace = TRUE]
                            ELSE [g EXCEPT !.depthTest = TRUE]
      [] c.op = "disable" -> IF c.name = "CULL_FACE" THEN [g EXCEPT !.cullFace = FALSE]
                             ELSE [g EXCEPT !.depthTest = FALSE]
      [] OTHER -> g

RECURSIVE BindingsAfter(_, _)
BindingsAfter(g, cs) ==
    IF cs = <<>> THEN g ELSE BindingsAfter(Effect(g, Head(cs)), Tail(cs))

\* Toolkit objects initialized after the calls `cs`, starting from the set r.
RECURSIVE ResourcesAfter(_, _)
ResourcesAfter(r, cs) ==
    IF cs = <<>> THEN r
    ELSE LET c == Head(cs)
             r1 == CASE c.op = "initialize" -> r \cup {c.name}
                     [] c.op = "uninitialize" -> r \ {c.name}
                     [] OTHER -> r
         IN ResourcesAfter(r1, Tail(cs))

----------------------------------------------------------------------------
\* EnvironmentRenderingPass

\* frame(), first branch: EnvironmentTextureType.EquirectangularMap
EquirectangularBranch(texture) ==
    assert(InstanceOfTexture2D(texture),
           "Input texture expected to be Texture2D for equirectangular mapping.",
           Returned(<<TextureBind("environmentTexture", texture, TEXTURE0)>>,
                    "equiMapProgram"))

\* frame(), second branch: EnvironmentTextureType.SphereMap
SphereBranch(texture) ==
    assert(InstanceOfTexture2D(texture),
           "Input texture expected to be Texture2D for sphere mapping.",
           Returned(<<TextureBind("environmentTexture", texture, TEXTURE0)>>,
                    "sphereMapProgram"))

\* Mutant of CubeBranch: the kind of the texture is not asserted.
CubeBranchUnchecked(texture) ==
    Returned(<<TextureBind("environmentTexture", texture, TEXTURE0)>>, "cubeMapProgram")

\* frame(), third branch: EnvironmentTextureType.CubeMap
CubeBranch(texture) ==
    assert(InstanceOfTextureCube(texture),
           "Input texture expected to be a TextureCube for cube mapping.",
           Returned(<<TextureBind("environmentTexture", texture, TEXTURE0)>>,
                    "cubeMapProgram"))

\* Mutant of PolarBranch: the second texture is asserted but not bound.
PolarBranchOneUnit(texture, texture2) ==
    assert(texture2 # Undefined, "Two input textures expected for polar mapping.",
    assert(InstanceOfTexture2D(texture),
           "Input texture expected to be a Texture2D for polar mapping.",
    assert(InstanceOfTexture2D(texture2),
           "Input texture expected to be a Texture2D for polar mapping.",
           Returned(<<TextureBind("environmentTexture", texture, TEXTURE0)>>,
                    "polarMapProgram"))))

\* frame(), fourth branch: EnvironmentTextureType.PolarMap
PolarBranch(texture, texture2) ==
    assert(texture2 # Undefined, "Two input textures expected for polar mapping.",
    assert(InstanceOfTexture2D(texture),
           "Input texture expected to be a Texture2D for polar mapping.",
    assert(InstanceOfTexture2D(texture2),
           "Input texture expected to be a Texture2D for polar mapping.",
           Returned(<<TextureBind("environmentTexture", texture, TEXTURE0),
                      TextureBind("environmentTexture2", texture2, TEXTURE1)>>,
                    "polarMapProgram"))))

\* Mutant of SelectProgram: a type matching no branch is treated as CubeMap.
SelectProgramDefaultingToCube(type, texture, texture2) ==
    IF type = EquirectangularMap THEN EquirectangularBranch(texture)
    ELSE IF type = SphereMap THEN SphereBranch(texture)
    ELSE IF type = PolarMap THEN PolarBranch(texture, texture2)
    ELSE CubeBranch(texture)

\* frame(): `let program = this._cubeMapProgram` and the if / else-if chain; a
\* type matching no branch keeps the initial program and binds nothing.
SelectProgram(type, texture, texture2) ==
    IF type = EquirectangularMap THEN EquirectangularBranch(texture)
    ELSE IF type = SphereMap THEN SphereBranch(texture)
    ELSE IF type = CubeMap THEN CubeBranch(texture)
    ELSE IF type = PolarMap THEN PolarBranch(texture, texture2)
    ELSE Returned(<<>>, "cubeMapProgram")

\* Mutant of FramePreconditions: the primary texture is not asserted.
FramePreconditionsCameraOnly(cam, texture, rest) ==
    assert(cam # Undefined, "Camera is undefined in environment rendering pass.", rest)

\* frame(): the two leading assertions.
FramePreconditions(cam, texture, rest) ==
    assert(cam # Undefined, "Camera is undefined in environment rendering pass.",
    assert(texture # Undefined,
           "Environment texture is undefined in environment rendering pass.",
           rest))

\* frame(): program.bind() ... program.unbind()
DrawWith(program, cam) ==
    <<Call("bind", program),
      UniformMatrix(program, cam),
      Call("bind", "ndcTriangle"),
      Call("draw", "ndcTriangle"),
      Call("unbind", program)>>

\* The body of frame() on the given field values.
frameBody(type, texture, texture2, cam) ==
    FramePreconditions(cam, texture,
        LET selected == SelectProgram(type, texture, texture2)
        IN  IF selected.thrown # NoError THEN selected
            ELSE Returned(selected.calls \o DrawWith(selected.program, cam),
                          selected.program))

frame ==
    /\ passState = "initialized"
    /\ LET r == frameBody(environmenTextureType, environmentTexture,
                          environmentTexture2, camera)
       IN  /\ calls' = r.calls
           /\ thrown' = r.thrown
           /\ gl' = BindingsAfter(gl, r.calls)
    /\ lastOp' = "frame"
    /\ UNCHANGED <<environmentTexture, environmentTexture2, environmenTextureType,
                   camera, passState, resources, initialized, everSet>>
    /\ UNCHANGED eyeVars

\* update() has an empty body.
update ==
    /\ passState = "initialized"
    /\ lastOp' = "update"
    /\ calls' = <<>>
    /\ thrown' = NoError
    /\ UNCHANGED envVars
    /\ UNCHANGED eyeVars

\* Mutant of SetEnvironmentTextureType: the setter drops a second texture
\* that the new type does not use.
SetEnvironmentTextureTypeDroppingTexture2(type) ==
    /\ environmenTextureType' = type
    /\ environmentTexture2' = IF type = PolarMap THEN environmentTexture2 ELSE Undefined
    /\ everSet' = everSet \cup {"environmentTextureType"}
    /\ lastOp' = "set environmentTextureType"
    /\ calls' = <<>>
    /\ thrown' = NoError
    /\ UNCHANGED <<environmentTexture, camera, passState, resources, initialized, gl>>
    /\ UNCHANGED eyeVars

\* set environmentTextureType(type)
SetEnvironmentTextureType(type) ==
    /\ environmenTextureType' = type
    /\ everSet' = everSet \cup {"environmentTextureType"}
    /\ lastOp' = "set environmentTextureType"
    /\ calls' = <<>>
    /\ thrown' = NoError
    /\ UNCHANGED <<environmentTexture, environmentTexture2, camera, passState,
                   resources, initialized, gl>>
    /\ UNCHANGED eyeVars

\* set environmentTexture(texture)
SetEnvironmentTexture(texture) ==
    /\ environmentTexture' = texture
    /\ everSet' = everSet \cup {"environmentTexture"}
    /\ lastOp' = "set environmentTexture"
    /\ calls' = <<>>
    /\ thrown' = NoError
    /\ UNCHANGED <<environmentTexture2, environmenTextureType, camera, passState,
                   resources, initialized, gl>>
    /\ UNCHANGED eyeVars

\* set environmentTexture2(texture)
SetEnvironmentTexture2(texture) ==
    /\ environmentTexture2' = texture
    /\ everSet' = everSet \cup {"environmentTexture2"}
    /\ lastOp' = "set environmentTexture2"
    /\ calls' = <<>>
    /\ thrown' = NoError
    /\ UNCHANGED <<environmentTexture, environmenTextureType, camera, passState,
                   resources, initialized, gl>>
    /\ UNCHANGED eyeVars

\* set camera(camera)
SetCamera(cam) ==
    /\ camera' = cam
    /\ everSet' = everSet \cup {"camera"}
    /\ lastOp' = "set camera"
    /\ calls' = <<>>
    /\ thrown' = NoError
    /\ UNCHANGED <<environmentTexture, environmentTexture2, environmenTextureType,
                   passState, resources, initialized, gl>>
    /\ UNCHANGED eyeVars


\* The four projection variants initialize() builds, in source order.
Variants ==
    <<[define |-> "CUBE_MAP", program |-> "cubeMapProgram",
       uniform |-> "uniform1i u_cubemap"],
      [define |-> "EQUI_MAP", program |-> "equiMapProgram",
       uniform |-> "uniform1i u_equirectmap"],
      [define |-> "SPHERE_MAP", program |-> "sphereMapProgram",
       uniform |-> "uniform1i u_spheremap"],
      [define |-> "POLAR_MAP", program |-> "polarMapProgram",
       uniform |-> "uniform1iv u_polarmap"]>>

\* initialize(): the block of one variant; `compiled` and `linked` are what
\* frag.compile() and program.link() report, which the block does not read.
VariantCalls(v, compiled, linked) ==
    <<Call("replace PROJECTION_TYPE", v.define),
      Build("compile", "frag", compiled),
      Call("initialize", v.program),
      Call("attribute a_vertex", v.program),
      Build("link", v.program, linked),
      Call("bind", v.program),
      Call(v.uniform, v.program),
      Call("unbind", v.program)>>

\* initialize(): all toolkit calls of the body, in order.
InitializeCalls(compiled, linked) ==
    <<Call("initialize", "ndcTriangle"),
      Call("initialize", "emptyTexture"),
      Call("initialize", "emptyCubemap"),
      Call("initialize", "vert"),
      Call("initialize", "frag")>>
    \o VariantCalls(Variants[1], compiled[1], linked[1])
    \o VariantCalls(Variants[2], compiled[2], linked[2])
    \o VariantCalls(Variants[3], compiled[3], linked[3])
    \o VariantCalls(Variants[4], compiled[4], linked[4])

\* initialize(): `return true`.
InitializeReturn(cs) == TRUE

\* Outcomes of the four compile and the four link steps with at most
\* MaxBuildFailures failures among them.
BuildOutcomes ==
    {o \in [compiled : [1..4 -> BOOLEAN], linked : [1..4 -> BOOLEAN]] :
        Cardinality({i \in 1..4 : ~o.compiled[i]})
          + Cardinality({i \in 1..4 : ~o.linked[i]}) <= MaxBuildFailures}

\* initialize(), wrapped by @Initializable.initialize(): the flag takes the
\* value the body returns.
initialize ==
    /\ passState = "constructed"
    /\ \E o \in BuildOutcomes :
          LET cs == InitializeCalls(o.compiled, o.linked)
          IN  /\ calls' = cs
              /\ gl' = BindingsAfter(gl, cs)
              /\ resources' = ResourcesAfter(resources, cs)
              /\ initialized' = InitializeReturn(cs)
              /\ passState' = IF InitializeReturn(cs) THEN "initialized" ELSE passState
    /\ lastOp' = "initialize"
    /\ thrown' = NoError
    /\ UNCHANGED <<environmentTexture, environmentTexture2, environmenTextureType,
                   camera, everSet>>
    /\ UNCHANGED eyeVars

\* uninitialize(): all toolkit calls of the body, in order.
UninitializeCalls ==
    <<Call("uninitialize", "cubeMapProgram"),
      Call("uninitialize", "equiMapProgram"),
      Call("uninitialize", "sphereMapProgram"),
      Call("uninitialize", "polarMapProgram")>>

\* uninitialize(), wrapped by @Initializable.uninitialize(): clears the flag.
uninitialize ==
    /\ passState = "initialized"
    /\ calls' = UninitializeCalls
    /\ gl' = BindingsAfter(gl, UninitializeCalls)
    /\ resources' = ResourcesAfter(resources, UninitializeCalls)
    /\ initialized' = FALSE
    /\ passState' = "uninitialized"
    /\ lastOp' = "uninitialize"
    /\ thrown' = NoError
    /\ UNCHANGED <<environmentTexture, environmentTexture2, environmenTextureType,
                   camera, everSet>>
    /\ UNCHANGED eyeVars

\* The state after `new EnvironmentRenderingPass(context)`.
EnvInit ==
    /\ environmentTexture = Undefined
    /\ environmentTexture2 = Undefined
    /\ environmenTextureType = UndefinedType
    /\ camera = Undefined
    /\ passState = "constructed"
    /\ resources = {}
    /\ initialized = FALSE
    /\ everSet = {}
    /\ gl = FreshContext

EnvNext ==
    \/ initialize
    \/ uninitialize
    \/ update
    \/ frame
    \/ \E type \in EnvironmentTextureType : SetEnvironmentTextureType(type)
    \/ \E texture \in Texture2Ds \cup TextureCubes : SetEnvironmentTexture(texture)
    \/ \E texture \in Texture2Ds : SetEnvironmentTexture2(texture)
    \/ \E cam \in Cameras : SetCamera(cam)

----------------------------------------------------------------------------
\* EyeTrackingRenderer

\* Bounds of the eye-tracking model: camera poses the navigation can reach,
\* canvas sizes the host can set, gaze samples the stream can deliver.
NumPoses == 2
NumCanvasSizes == 2
NumGazeSamples == 1

Poses == 0..(NumPoses - 1)
CanvasSizes == 0..(NumCanvasSizes - 1)
GazeData == 0..NumGazeSamples

\* enum EyeTrackingStatusMessage, as far as the status callback tells its
\* members apart: the two it names and any other.
StatusMessages == {"NewServerMessage", "BinaryMessageTooSmall", "Other"}

Line(text, value) == [text |-> text, value |-> value]
NoLine == Line("", 0)

\* A call that passes a number along (a size, or a camera's matrix).
CallWith(op, name, kind, value) ==
    [op |-> op, name |-> name, obj |-> [kind |-> kind, id |-> value],
     unit |-> NoUnit, ok |-> TRUE]

\* camera.viewProjection is determined by the camera's eye and aspect.
ViewProjection(cam) == (cam.eye * NumCanvasSizes) + cam.aspect

\* The host's render loop: update, then prepare, frame and swap if update
\* asked for a redraw.
LoopAt(step) == eyeState = "initialized" /\ loop = step

\* onInitialize(): all toolkit calls of the body, in order.
OnInitializeCalls ==
    <<Call("new", "eyeTrackerDataStream"),
      Call("onDataUpdate", "eyeTrackerDataStream"),
      Call("onStatusUpdate", "eyeTrackerDataStream"),
      Call("connect", "eyeTrackerDataStream"),
      Call("initialize", "defaultFBO"),
      Call("bind", "defaultFBO"),
      Call("initialize", "cuboid"),
      Call("initialize", "vert"),
      Call("initialize", "frag"),
      Call("initialize", "program"),
      Call("attribute a_vertex", "program"),
      Call("attribute a_texCoord", "program"),
      Call("link", "program"),
      Call("bind", "program"),
      Call("uniformMatrix4fv u_model", "program"),
      Call("uniform1i u_texture", "program"),
      Call("uniform1i u_textured", "program")>>

onInitialize ==
    /\ eyeState = "constructed"
    /\ calls' = OnInitializeCalls
    /\ stream' = [stream EXCEPT !.created = TRUE,
                                !.subscribers = {"data", "status"},
                                !.dataStreams = {"gazePosition", "gazeOrigin",
                                                 "eyePositionNormalized",
                                                 "headPositionAndRotation",
                                                 "userPresence"},
                                !.connected = TRUE]
    /\ eyeGl' = BindingsAfter(eyeGl, OnInitializeCalls)
    /\ eyeResources' = ResourcesAfter(eyeResources, OnInitializeCalls)
    /\ eyeCamera' = [eye |-> 0, aspect |-> 0, viewport |-> 0, altered |-> TRUE]
    /\ navigation' = [attached |-> TRUE, pending |-> FALSE]
    /\ eyeState' = "initialized"
    /\ loop' = "update"
    /\ lastOp' = "onInitialize"
    /\ thrown' = NoError
    /\ UNCHANGED <<altered, canvasSize, console>>
    /\ UNCHANGED envVars

\* navigation.update(): processes pending events, moving the camera.
NavigationUpdate(nav, cam, pose) ==
    IF nav.pending THEN [cam EXCEPT !.eye = pose, !.altered = TRUE] ELSE cam

\* onUpdate(): returns whether a redraw is needed.
onUpdate ==
    /\ LoopAt("update")
    /\ \E pose \in Poses :
          /\ eyeCamera' = NavigationUpdate(navigation, eyeCamera, pose)
          /\ navigation' = [navigation EXCEPT !.pending = FALSE]
          /\ loop' = IF altered.canvasSize \/ altered.clearColor \/ eyeCamera'.altered
                     THEN "prepare" ELSE "update"
    /\ lastOp' = "onUpdate"
    /\ calls' = <<Call("update", "navigation")>>
    /\ thrown' = NoError
    /\ UNCHANGED <<eyeState, altered, canvasSize, eyeResources, eyeGl, stream, console>>
    /\ UNCHANGED envVars

\* onPrepare()
onPrepare ==
    /\ LoopAt("prepare")
    /\ eyeCamera' = [eye |-> eyeCamera.eye,
                     aspect |-> IF altered.canvasSize THEN canvasSize
                                ELSE eyeCamera.aspect,
                     viewport |-> IF altered.canvasSize THEN canvasSize
                                  ELSE eyeCamera.viewport,
                     altered |-> FALSE]
    /\ calls' = IF altered.clearColor THEN <<Call("clearColor", "defaultFBO")>>
                ELSE <<>>
    /\ altered' = [canvasSize |-> FALSE, clearColor |-> FALSE]
    /\ loop' = "frame"
    /\ lastOp' = "onPrepare"
    /\ thrown' = NoError
    /\ UNCHANGED <<eyeState, navigation, canvasSize, eyeResources, eyeGl, stream,
                   console>>
    /\ UNCHANGED envVars

\* onFrame(): all toolkit calls of the body, in order.
OnFrameCalls(cam, frameSize) ==
    <<Call("bind", "defaultFBO"),
      Call("clear COLOR_BUFFER_BIT | DEPTH_BUFFER_BIT", "defaultFBO"),
      CallWith("viewport", "gl", "size", frameSize),
      Call("enable", "CULL_FACE"),
      Call("cullFace", "BACK"),
      Call("enable", "DEPTH_TEST"),
      Call("bind", "program"),
      CallWith("uniformMatrix4fv", "program", "viewProjection", ViewProjection(cam)),
      Call("bind", "cuboid"),
      Call("draw", "cuboid"),
      Call("unbind", "cuboid"),
      Call("unbind", "program"),
      Call("cullFace", "BACK"),
      Call("disable", "CULL_FACE")>>

onFrame ==
    /\ LoopAt("frame")
    /\ calls' = OnFrameCalls(eyeCamera, canvasSize)
    /\ eyeGl' = BindingsAfter(eyeGl, OnFrameCalls(eyeCamera, canvasSize))
    /\ loop' = "swap"
    /\ lastOp' = "onFrame"
    /\ thrown' = NoError
    /\ UNCHANGED <<eyeState, eyeCamera, navigation, altered, canvasSize, eyeResources,
                   stream, console>>
    /\ UNCHANGED envVars

\* onSwap() has an empty body.
onSwap ==
    /\ LoopAt("swap")
    /\ loop' = "update"
    /\ lastOp' = "onSwap"
    /\ calls' = <<>>
    /\ thrown' = NoError
    /\ UNCHANGED <<eyeState, eyeCamera, navigation, altered, canvasSize, eyeResources,
                   eyeGl, stream, console>>
    /\ UNCHANGED envVars

\* onUninitialize(): all toolkit calls of the body, in order.
OnUninitializeCalls ==
    <<Call("super.uninitialize", "renderer"),
      Call("uninitialize", "cuboid"),
      Call("uninitialize", "program"),
      Call("uninitialize", "defaultFBO")>>

onUninitialize ==
    /\ eyeState = "initialized"
    /\ calls' = OnUninitializeCalls
    /\ eyeGl' = BindingsAfter(eyeGl, OnUninitializeCalls)
    /\ eyeResources' = ResourcesAfter(eyeResources, OnUninitializeCalls)
    /\ eyeState' = "uninitialized"
    /\ lastOp' = "onUninitialize"
    /\ thrown' = NoError
    /\ UNCHANGED <<loop, eyeCamera, navigation, altered, canvasSize, stream, console>>
    /\ UNCHANGED envVars

\* Mutant of DataUpdateCallback: the gaze sample steers the camera.
DataUpdateCallbackSteeringCamera ==
    /\ "data" \in stream.subscribers
    /\ console' = Line("eyeTrackingData", stream.eyeTrackingData)
    /\ eyeCamera' = [eyeCamera EXCEPT !.eye = stream.eyeTrackingData % NumPoses,
                                      !.altered = TRUE]
    /\ lastOp' = "dataUpdate"
    /\ calls' = <<>>
    /\ thrown' = NoError
    /\ UNCHANGED <<eyeState, loop, navigation, altered, canvasSize,
                   eyeResources, eyeGl, stream>>
    /\ UNCHANGED envVars

\* The data-update callback registered by onInitialize():
\* console.log(eyeTrackingData.toString())
DataUpdateCallback ==
    /\ "data" \in stream.subscribers
    /\ console' = Line("eyeTrackingData", stream.eyeTrackingData)
    /\ lastOp' = "dataUpdate"
    /\ calls' = <<>>
    /\ thrown' = NoError
    /\ UNCHANGED <<eyeState, loop, eyeCamera, navigation, altered, canvasSize,
                   eyeResources, eyeGl, stream>>
    /\ UNCHANGED envVars

\* The status-update callback registered by onInitialize(): the switch over
\* statusMessage, each case one console.log.
StatusLine(s) ==
    CASE s.statusMessage = "NewServerMessage" -> Line("serverMessage", s.serverMessage)
      [] s.statusMessage = "BinaryMessageTooSmall" ->
            Line("Received stream from server with not enough bytes.", 0)
      [] OTHER -> Line("Eye-Tracking data stream in invalid state.", 0)

StatusUpdateCallback ==
    /\ "status" \in stream.subscribers
    /\ console' = StatusLine(stream)
    /\ lastOp' = "statusUpdate"
    /\ calls' = <<>>
    /\ thrown' = NoError
    /\ UNCHANGED <<eyeState, loop, eyeCamera, navigation, altered, canvasSize,
                   eyeResources, eyeGl, stream>>
    /\ UNCHANGED envVars

\* The stream client receives a gaze sample or a status message (its own
\* fields change; the callbacks above are what it then invokes).
StreamReceives(data, status) ==
    /\ stream.connected
    /\ stream' = [stream EXCEPT !.eyeTrackingData = data, !.statusMessage = status]
    /\ lastOp' = "streamReceives"
    /\ calls' = <<>>
    /\ thrown' = NoError
    /\ UNCHANGED <<eyeState, loop, eyeCamera, navigation, altered, canvasSize,
                   eyeResources, eyeGl, console>>
    /\ UNCHANGED envVars

\* The host resizes the canvas or changes the clear colour (Renderer setters).
HostAlters(size, colour) ==
    /\ eyeState = "initialized"
    /\ canvasSize' = size
    /\ altered' = [canvasSize |-> altered.canvasSize \/ size # canvasSize,
                   clearColor |-> altered.clearColor \/ colour]
    /\ lastOp' = "hostAlters"
    /\ calls' = <<>>
    /\ thrown' = NoError
    /\ UNCHANGED <<eyeState, loop, eyeCamera, navigation, eyeResources, eyeGl, stream,
                   console>>
    /\ UNCHANGED envVars

\* A mouse event reaches the navigation's event provider.
MouseEvent ==
    /\ eyeState = "initialized"
    /\ ~navigation.pending
    /\ navigation' = [navigation EXCEPT !.pending = TRUE]
    /\ lastOp' = "mouseEvent"
    /\ calls' = <<>>
    /\ thrown' = NoError
    /\ UNCHANGED <<eyeState, loop, eyeCamera, altered, canvasSize, eyeResources, eyeGl,
                   stream, console>>
    /\ UNCHANGED envVars

\* The state after `new EyeTrackingRenderer()`: no field is assigned yet.
EyeInit ==
    /\ eyeState = "constructed"
    /\ loop = "update"
    /\ eyeCamera = [eye |-> 0, aspect |-> 0, viewport |-> 0, altered |-> FALSE]
    /\ navigation = [attached |-> FALSE, pending |-> FALSE]
    /\ altered = [canvasSize |-> FALSE, clearColor |-> FALSE]
    /\ canvasSize = 0
    /\ eyeResources = {}
    /\ eyeGl = FreshContext
    /\ stream = [created |-> FALSE, subscribers |-> {}, dataStreams |-> {},
                 connected |-> FALSE, eyeTrackingData |-> 0,
                 statusMessage |-> "Other", serverMessage |-> 0]
    /\ console = NoLine

EyeNext ==
    \/ onInitialize
    \/ onUpdate
    \/ onPrepare
    \/ onFrame
    \/ onSwap
    \/ onUninitialize
    \/ DataUpdateCallback
    \/ StatusUpdateCallback
    \/ \E data \in GazeData, status \in StatusMessages : StreamReceives(data, status)
    \/ \E size \in CanvasSizes, colour \in BOOLEAN : HostAlters(size, colour)
    \/ MouseEvent

----------------------------------------------------------------------------
\* Specifications

Init ==
    /\ EnvInit
    /\ EyeInit
    /\ lastOp = "constructor"
    /\ calls = <<>>
    /\ thrown = NoError

\* The environment rendering pass on its own.
Next == EnvNext
Spec == Init /\ [][Next]_vars

\* The eye-tracking renderer on its own.
SpecEye == Init /\ [][EyeNext]_vars

----------------------------------------------------------------------------
\* Properties

\* Reading a sequence of calls.
DrawIndices(cs) == {i \in DOMAIN cs : cs[i].op = "draw"}
TextureBindsOf(cs) ==
    {[obj |-> cs[i].obj, unit |-> cs[i].unit] :
        i \in {j \in DOMAIN cs : cs[j].op = "bind" /\ cs[j].unit # NoUnit}}
ProgramBindsOf(cs) ==
    {cs[i].name : i \in {j \in DOMAIN cs : cs[j].op = "bind" /\ cs[j].name \in Programs}}
\* The program bound when call i is issued, nothing being bound beforehand.
ProgramAt(cs, i) == BindingsAfter(FreshContext, SubSeq(cs, 1, i)).program

\* The dispatch table of the specification.
ProgramOfType(type) ==
    CASE type = CubeMap -> "cubeMapProgram"
      [] type = EquirectangularMap -> "equiMapProgram"
      [] type = SphereMap -> "sphereMapProgram"
      [] type = PolarMap -> "polarMapProgram"
RequiredTexturesSet ==
    CASE environmenTextureType = CubeMap -> InstanceOfTextureCube(environmentTexture)
      [] environmenTextureType \in {EquirectangularMap, SphereMap} ->
            InstanceOfTexture2D(environmentTexture)
      [] environmenTextureType = PolarMap ->
            InstanceOfTexture2D(environmentTexture)
            /\ InstanceOfTexture2D(environmentTexture2)
      [] OTHER -> FALSE
TextureKindMismatch ==
    \/ environmenTextureType = CubeMap /\ InstanceOfTexture2D(environmentTexture)
    \/ environmenTextureType \in {EquirectangularMap, SphereMap, PolarMap}
          /\ InstanceOfTextureCube(environmentTexture)
    \/ environmenTextureType = PolarMap /\ environmentTexture2 = Undefined

\* C1: for each of the four projection types, with a camera and the textures
\* of the required kind set, frame() issues exactly one draw, of the
\* full-screen triangle, with the program of that type bound, and binds the
\* primary texture to unit 0 only (PolarMap: also the second one to unit 1).
C1_FrameDrawsOnceWithProgramOfType ==
    (lastOp = "frame" /\ camera # Undefined /\ RequiredTexturesSet) =>
        /\ thrown = NoError
        /\ Cardinality(DrawIndices(calls)) = 1
        /\ \A i \in DrawIndices(calls) :
              /\ calls[i].name = "ndcTriangle"
              /\ ProgramAt(calls, i) = ProgramOfType(environmenTextureType)
        /\ ProgramBindsOf(calls) = {ProgramOfType(environmenTextureType)}
        /\ TextureBindsOf(calls) =
              IF environmenTextureType = PolarMap
              THEN {[obj |-> environmentTexture, unit |-> TEXTURE0],
                    [obj |-> environmentTexture2, unit |-> TEXTURE1]}
              ELSE {[obj |-> environmentTexture, unit |-> TEXTURE0]}

C1_Witness ==
    /\ lastOp = "frame"
    /\ thrown = NoError
    /\ environmenTextureType = PolarMap
    /\ environmentTexture # environmentTexture2
    /\ gl.unit0 = environmentTexture
    /\ gl.unit1 = environmentTexture2

\* C2: when the camera or the primary texture has never been set, frame()
\* fails an assertion and issues no call at all (no bind, no draw).
C2_FrameWithoutCameraOrTextureThrows ==
    (lastOp = "frame"
       /\ ("camera" \notin everSet \/ "environmentTexture" \notin everSet)) =>
        /\ thrown # NoError
        /\ calls = <<>>

C2_Witness ==
    /\ lastOp = "frame"
    /\ "camera" \in everSet
    /\ "environmentTexture" \notin everSet
    /\ "environmentTextureType" \notin everSet
    /\ thrown # NoError

\* C3: with camera and primary texture set, frame() fails an assertion when
\* the texture kinds do not match the row of the selected type, and it does
\* so before any texture or program is bound and before any draw.
C3_FrameWithMismatchedTextureThrows ==
    (lastOp = "frame" /\ camera # Undefined /\ environmentTexture # Undefined
       /\ TextureKindMismatch) =>
        /\ thrown # NoError
        /\ calls = <<>>

C3_Witness ==
    /\ lastOp = "frame"
    /\ camera # Undefined
    /\ environmenTextureType = CubeMap
    /\ InstanceOfTexture2D(environmentTexture)
    /\ thrown # NoError

\* C10: when the texture type was never set, frame() with camera and primary
\* texture set checks no texture kind, binds no texture, and issues one draw
\* with the cube-map program, whatever the kind of the primary texture.
C10_FrameWithUnsetTypeDrawsWithCubeProgram ==
    (lastOp = "frame" /\ "environmentTextureType" \notin everSet
       /\ camera # Undefined /\ environmentTexture # Undefined) =>
        /\ thrown = NoError
        /\ TextureBindsOf(calls) = {}
        /\ Cardinality(DrawIndices(calls)) = 1
        /\ \A i \in DrawIndices(calls) : ProgramAt(calls, i) = "cubeMapProgram"

C10_Witness ==
    /\ lastOp = "frame"
    /\ "environmentTextureType" \notin everSet
    /\ camera # Undefined
    /\ InstanceOfTexture2D(environmentTexture)
    /\ Cardinality(DrawIndices(calls)) = 1

\* What initialize() initializes.
InitializedByInitialize ==
    {"cubeMapProgram", "equiMapProgram", "sphereMapProgram", "polarMapProgram",
     "ndcTriangle", "emptyTexture", "emptyCubemap", "vert", "frag"}

\* C4: after uninitialize(), the uninitialize path of each of the four
\* programs has been invoked and nothing that initialize() initialized (the
\* programs, the triangle, the two placeholder textures, the two shaders) is
\* still initialized.
C4_UninitializeReleasesEverything ==
    lastOp = "uninitialize" =>
        /\ \A v \in DOMAIN Variants :
              \E i \in DOMAIN calls :
                 calls[i].op = "uninitialize" /\ calls[i].name = Variants[v].program
        /\ resources \cap InitializedByInitialize = {}

\* C5: the boolean initialize() returns is true exactly when every compile
\* and link step of the four variants succeeded.
C5_InitializeReturnsBuildSuccess ==
    lastOp = "initialize" =>
        (initialized <=>
            \A i \in DOMAIN calls : calls[i].op \in {"compile", "link"} => calls[i].ok)

\* C7: in a completed frame() or onFrame(), every resource the frame binds is
\* bound before the draw call and unbound again after it, before the frame
\* returns.
C7_FrameUnbindsWhatItBinds ==
    (lastOp \in {"frame", "onFrame"} /\ thrown = NoError) =>
        \A i \in DOMAIN calls :
            calls[i].op = "bind" =>
                \E d \in DrawIndices(calls) :
                    /\ i < d
                    /\ \E j \in DOMAIN calls :
                          /\ d < j
                          /\ calls[j].op = "unbind"
                          /\ calls[j].name = calls[i].name
                          /\ calls[j].unit = calls[i].unit

\* C9: when onFrame() returns, face culling and depth test are disabled and
\* neither the program nor the cuboid is bound.
C9_OnFrameRestoresState ==
    lastOp = "onFrame" =>
        /\ ~eyeGl.cullFace
        /\ ~eyeGl.depthTest
        /\ eyeGl.program = NoObject
        /\ eyeGl.geometry = NoObject

\* The combinations of field values frame() accepts.
Consistent ==
    /\ camera # Undefined
    /\ environmentTexture # Undefined
    /\ ~TextureKindMismatch

\* C6: a setter changes its own field only, issues no toolkit call and fails
\* no assertion, whatever the order of the calls; no other operation touches
\* the four fields; and frame() fails exactly on an inconsistent combination
\* of the values the fields hold, which are the values last set.
C6_SettersOnlySetTheirField ==
    [][/\ lastOp' = "set environmentTextureType" =>
            /\ UNCHANGED <<environmentTexture, environmentTexture2, camera>>
            /\ UNCHANGED <<gl, resources, initialized, passState>>
            /\ thrown' = NoError /\ calls' = <<>>
       /\ lastOp' = "set environmentTexture" =>
            /\ UNCHANGED <<environmenTextureType, environmentTexture2, camera>>
            /\ UNCHANGED <<gl, resources, initialized, passState>>
            /\ thrown' = NoError /\ calls' = <<>>
       /\ lastOp' = "set environmentTexture2" =>
            /\ UNCHANGED <<environmenTextureType, environmentTexture, camera>>
            /\ UNCHANGED <<gl, resources, initialized, passState>>
            /\ thrown' = NoError /\ calls' = <<>>
       /\ lastOp' = "set camera" =>
            /\ UNCHANGED <<environmenTextureType, environmentTexture,
                           environmentTexture2>>
            /\ UNCHANGED <<gl, resources, initialized, passState>>
            /\ thrown' = NoError /\ calls' = <<>>
       /\ lastOp' \in {"frame", "update", "initialize", "uninitialize"} =>
            UNCHANGED <<environmenTextureType, environmentTexture,
                        environmentTexture2, camera>>
       /\ lastOp' = "frame" => (thrown' = NoError <=> Consistent')
      ]_vars

C6_Witness ==
    /\ lastOp = "frame"
    /\ everSet = {"environmentTextureType", "environmentTexture",
                  "environmentTexture2", "camera"}
    /\ environmenTextureType = EquirectangularMap
    /\ InstanceOfTextureCube(environmentTexture)
    /\ thrown # NoError
    /\ gl.unit0 # Undefined

\* The renderer's fields and GL state, as one value.
RendererFields ==
    <<eyeState, loop, eyeCamera, navigation, altered, canvasSize, eyeResources, eyeGl>>

\* C8: a data-update or status-update callback, whenever it is invoked,
\* fails no assertion, issues no toolkit call and leaves every field of the
\* renderer, the GL state and the stream unchanged (it writes a console
\* line); the calls of a frame are those of the fields it finds.
C8_CallbacksOnlyLog ==
    [][/\ lastOp' \in {"dataUpdate", "statusUpdate"} =>
            /\ UNCHANGED RendererFields
            /\ UNCHANGED stream
            /\ thrown' = NoError /\ calls' = <<>>
            /\ console' # NoLine
       /\ lastOp' = "onFrame" =>
            /\ thrown' = NoError
            /\ [i \in DOMAIN calls' |-> calls'[i].op] =
                  <<"bind", "clear COLOR_BUFFER_BIT | DEPTH_BUFFER_BIT", "viewport",
                    "enable", "cullFace", "enable", "bind", "uniformMatrix4fv",
                    "bind", "draw", "unbind", "unbind", "cullFace", "disable">>
            /\ calls'[3].obj.id = canvasSize
            /\ calls'[8].obj.id = ViewProjection(eyeCamera)
      ]_vars

C8_Witness ==
    /\ lastOp = "dataUpdate"
    /\ loop = "frame"
    /\ stream.eyeTrackingData # 0
    /\ console = Line("eyeTrackingData", stream.eyeTrackingData)

====
